---- MODULE Spec2Model ----
(***************************************************************************)
(* Photo-Organizer (main.py): a run of organize_media over a source tree.  *)
(* The run-scoped state is the seen-digest set (processed_files), the      *)
(* geocode cache (location_cache), the output tree and the success count.  *)
(* Files, their metadata and the outcomes of the external collaborators    *)
(* (file system, reverse geocoder) are the inputs.                         *)
(*                                                                         *)
(* Conventions: an optional value is a sequence of length <= 1 (None is    *)
(* <<>>); a dict is a function (the empty dict is <<>>); a date is         *)
(* <<year, month>>; a latitude or longitude is an integer number of        *)
(* arc-seconds (1/3600 degree), so that degrees + minutes/60 +             *)
(* seconds/3600 is exact.                                                  *)
(***************************************************************************)
EXTENDS Integers, Sequences, FiniteSets, TLC

\* ------------------------------------------------------------------ bounds
\* Number of files in the source tree of a run.
MaxFiles == 2
\* Largest seconds component of a GPS triplet drawn as input.
MaxSec == 3

\* ----------------------------------------------------------------- helpers
None == <<>>
Some(x) == <<x>>

RECURSIVE Join(_)
\* Concatenation of a sequence of strings.
Join(s) == IF s = <<>> THEN "" ELSE Head(s) \o Join(Tail(s))

Range(f) == {f[x] : x \in DOMAIN f}

\* ------------------------------------------------------- module constants
PHOTO_EXTENSIONS == {".jpg", ".jpeg", ".png", ".tiff", ".tif", ".bmp", ".gif"}
VIDEO_EXTENSIONS == {".mp4", ".mov", ".avi", ".mkv", ".wmv", ".flv", ".webm", ".m4v", ".3gp"}
IPHONE_EXTENSIONS == {".heic", ".heif"}
SUPPORTED_EXTENSIONS == PHOTO_EXTENSIONS \cup VIDEO_EXTENSIONS \cup IPHONE_EXTENSIONS

\* str.lower() on the suffixes that occur in the inputs.
Lower(s) ==
    CASE s = ".JPG" -> ".jpg"
      [] s = ".Mp4" -> ".mp4"
      [] s = ".TXT" -> ".txt"
      [] OTHER -> s

\* Path(file_path).suffix.lower() in SUPPORTED_EXTENSIONS
\* Variant: the suffix is compared as written.
is_supported_file_CaseSensitive(file_path) ==
    file_path.suffix \in SUPPORTED_EXTENSIONS

is_supported_file(file_path) == Lower(file_path.suffix) \in SUPPORTED_EXTENSIONS

\* Path(file_path).name
PathName(file_path) == file_path.stem \o file_path.suffix

\* --------------------------------------------------------- ContentHasher
\* hashlib.md5 over the bytes of the file: one digest per content.
MD5(content) == "md5:" \o content

\* calculate_file_hash: the hex digest, or None when reading the file fails.
calculate_file_hash(file) ==
    IF file.readable THEN Some(MD5(file.content)) ELSE None

\* Variant: the file system is never asked.
get_file_creation_date_None(file) == None

\* get_file_creation_date: os.path.getctime as a date, or None on failure.
get_file_creation_date(file) == file.ctime

\* ----------------------------------------------------------- DateResolver
\* A raw date string is [sep, ym, frac]: sep is the layout of the string
\* ("colon" = YYYY:MM:DD HH:MM:SS, "dash" = YYYY-MM-DD HH:MM:SS,
\* "T" = YYYY-MM-DDTHH:MM:SS, "junk" = anything else, also a non-string,
\* "junk_Date" = anything else in which the word 'Date' occurs), ym the
\* date it spells, frac whether a ".ffffff" suffix follows.

\* datetime.strptime(s, fmt): Some(date) or None when it raises.
strptime(s, fmt) ==
    IF s.sep = fmt /\ ~s.frac THEN Some(s.ym) ELSE None

\* date_str.split('.')[0]
StripFraction(s) == [s EXCEPT !.frac = FALSE]

\* Variant: the digitized tag is tried before the generic one.
DateTagOrder_DigitizedFirst == <<"DateTimeOriginal", "DateTimeDigitized", "DateTime">>

\* The order in which get_date_taken tries the EXIF date tags.
DateTagOrder == <<"DateTimeOriginal", "DateTime", "DateTimeDigitized">>

\* The formats get_date_taken tries on the video creation date.
VideoFormats == <<"dash", "colon", "T">>

RECURSIVE FirstExifDate(_, _)
\* for date_tag in [...]: if date_tag in exif_data: try: return strptime(...)
FirstExifDate(tags, order) ==
    IF order = <<>> THEN None
    ELSE IF Head(order) \in DOMAIN tags
            /\ strptime(tags[Head(order)], "colon") # None
         THEN strptime(tags[Head(order)], "colon")
         ELSE FirstExifDate(tags, Tail(order))

RECURSIVE FirstVideoDate(_, _)
\* for fmt in [...]: try: return strptime(date_str.split('.')[0], fmt)
FirstVideoDate(date_str, fmts) ==
    IF fmts = <<>> THEN None
    ELSE IF strptime(StripFraction(date_str), Head(fmts)) # None
         THEN strptime(StripFraction(date_str), Head(fmts))
         ELSE FirstVideoDate(date_str, Tail(fmts))

\* `if exif_data:`: a dict is true when it is not empty.
ExifTruthy(exif_data) == exif_data.tags # <<>> \/ exif_data.gps # <<>>

\* get_date_taken: Some(date), or None.
get_date_taken(file, exif_data, video_data) ==
    LET e == IF ExifTruthy(exif_data)
             THEN FirstExifDate(exif_data.tags, DateTagOrder) ELSE None
        v == IF "creation_date" \in DOMAIN video_data
             THEN FirstVideoDate(video_data["creation_date"], VideoFormats)
             ELSE None
    IN  IF e # None THEN e
        ELSE IF v # None THEN v
        ELSE get_file_creation_date(file)

\* ------------------------------------------------------ MetadataExtractor
\* Whether the optional video-metadata parser (hachoir) was importable.
HACHOIR_SUPPORT == TRUE

\* get_exif_data: the tag dict of the image, {} when it cannot be opened or
\* carries no EXIF.  A tag dict is [tags: date tags, gps: the GPSInfo dict].
EmptyExif == [tags |-> <<>>, gps |-> <<>>]
get_exif_data(file) == IF file.image_ok THEN file.exif ELSE EmptyExif

\* A metadata line is [label, sep, value]: the text is label, then ": " when
\* sep, then the value.  `'Creation date' in line or 'Date' in line` looks
\* at the whole text: the words may be in the label or in the value.
LineMatches(line) ==
    \/ line.label \in {"Creation date", "Date"}
    \/ line.value.sep = "junk_Date"

\* Variant: the first line that matches and splits is kept.
ScanLines_FirstWins(lines, video_data) ==
    LET hits == { i \in DOMAIN lines : LineMatches(lines[i]) /\ lines[i].sep }
        first == CHOOSE i \in hits : \A j \in hits : i <= j
    IN  IF hits = {} THEN video_data
        ELSE [k \in {"creation_date"} |-> lines[first].value]

RECURSIVE ScanLines(_, _)
\* for line in metadata.exportPlaintext(): ... video_data['creation_date'] = ...
ScanLines(lines, video_data) ==
    IF lines = <<>> THEN video_data
    ELSE LET line == Head(lines)
         IN  IF LineMatches(line) /\ line.sep
             THEN ScanLines(Tail(lines), [k \in {"creation_date"} |-> line.value])
             ELSE ScanLines(Tail(lines), video_data)

\* get_video_metadata: {} without hachoir, or when the parser or the metadata
\* is missing; else the dict built from the exported lines.
get_video_metadata(file) ==
    IF ~HACHOIR_SUPPORT \/ ~file.video_ok THEN <<>>
    ELSE ScanLines(file.lines, <<>>)

\* -------------------------------------------------------------- GpsDecoder
\* A GPS value is [kind, comps]: kind "tuple" (a list or tuple) or "scalar";
\* comps the components, each Some(number) or None when float() raises on
\* it.  A scalar has one component, in whole degrees.

\* float(value[i]) for the three components, in arc-seconds
convert_to_degrees(value) ==
    IF value.kind = "tuple" /\ Len(value.comps) >= 3
    THEN IF \E i \in 1..3 : value.comps[i] = None
         THEN 0
         ELSE value.comps[1][1] * 3600 + value.comps[2][1] * 60 + value.comps[3][1]
    ELSE IF value.kind = "scalar" /\ value.comps[1] # None
         THEN value.comps[1][1] * 3600
         ELSE 0

\* `if lat_data:` a sequence is true when not empty, a number when not zero
\* (a non-numeric scalar is a non-empty string).
GpsTruthy(value) ==
    IF value.kind = "tuple" THEN value.comps # <<>>
    ELSE value.comps[1] = None \/ value.comps[1][1] # 0

\* gps_info.get(key, default)
DictGet(d, key, default) == IF key \in DOMAIN d THEN d[key] ELSE default

\* get_gps_info: [lat, lon], each Some(arc-seconds), or both None.
get_gps_info(exif_data) ==
    LET gps_info == exif_data.gps
        NoCoord == [lat |-> None, lon |-> None]
        lat_ref == DictGet(gps_info, "GPSLatitudeRef", "N")
        lon_ref == DictGet(gps_info, "GPSLongitudeRef", "E")
        HasLat == "GPSLatitude" \in DOMAIN gps_info /\ GpsTruthy(gps_info["GPSLatitude"])
        HasLon == "GPSLongitude" \in DOMAIN gps_info /\ GpsTruthy(gps_info["GPSLongitude"])
        lat0 == convert_to_degrees(gps_info["GPSLatitude"])
        lon0 == convert_to_degrees(gps_info["GPSLongitude"])
        lat == IF lat_ref = "S" THEN -lat0 ELSE lat0
        lon == IF lon_ref = "W" THEN -lon0 ELSE lon0
    IN  IF gps_info = <<>> THEN NoCoord
        ELSE IF ~HasLat THEN NoCoord
        ELSE IF ~HasLon THEN NoCoord
        ELSE [lat |-> Some(lat), lon |-> Some(lon)]

\* ------------------------------------------------------- LocationResolver
\* round(x, 3) of x arc-seconds, in thousandths of a degree: the integer
\* nearest to 5x/18.  (5x/18 is halfway between two integers only when x is
\* an odd multiple of 9; the inputs stay below 9 arc-seconds off a whole
\* degree.)
Abs(x) == IF x < 0 THEN -x ELSE x
Round3(x) ==
    LET q == (10 * Abs(x) + 18) \div 36
    IN  IF x < 0 THEN -q ELSE q

\* `not lat`: None and 0.0 are both false.
Falsy(opt) == opt = None \/ opt[1] = 0

\* Variant: spaces are removed like commas.
CleanName_Strip(chars) == SelectSeq(chars, LAMBDA c : c \notin {" ", ","})

\* str.replace(" ", "_").replace(",", "") on a sequence of characters
RECURSIVE CleanName(_)
CleanName(chars) ==
    IF chars = <<>> THEN <<>>
    ELSE IF Head(chars) = " " THEN <<"_">> \o CleanName(Tail(chars))
    ELSE IF Head(chars) = "," THEN CleanName(Tail(chars))
    ELSE <<Head(chars)>> \o CleanName(Tail(chars))

\* The address fields tried for the place, most specific first.
PlaceFields == <<"city", "town", "village", "suburb", "neighbourhood", "county", "state">>

RECURSIVE FirstField(_, _)
\* address.get('city') or address.get('town') or ...: the first field that
\* is present and not empty; <<>> when there is none.
FirstField(address, fields) ==
    IF fields = <<>> THEN <<>>
    ELSE IF Head(fields) \in DOMAIN address /\ address[Head(fields)] # <<>>
         THEN address[Head(fields)]
         ELSE FirstField(address, Tail(fields))

\* f"{city_name}_{country_name}"
ComposeName(address) ==
    LET city == FirstField(address, PlaceFields)
        country == FirstField(address, <<"country">>)
        city_name == IF city # <<>> THEN Join(CleanName(city)) ELSE "Unknown"
        country_name == IF country # <<>> THEN Join(CleanName(country)) ELSE "Unknown"
    IN  city_name \o "_" \o country_name

\* The answer of geolocator.reverse is [kind, address]: kind "raise" (an
\* exception), "none" (no location) or "ok" (a location with that address).

\* Variant: a failed request is not stored in the cache.
get_location_name_NoFailureCache(lat, lon, cache, reply) ==
    LET cache_key == <<Round3(lat[1]), Round3(lon[1])>>
        name == ComposeName(reply.address)
    IN  IF Falsy(lat) \/ Falsy(lon)
        THEN [name |-> "Unknown_Location", cache |-> cache, events |-> <<>>]
        ELSE IF cache_key \in DOMAIN cache
        THEN [name |-> cache[cache_key], cache |-> cache, events |-> <<"lookup">>]
        ELSE IF reply.kind = "ok"
        THEN [name |-> name,
              cache |-> [k \in DOMAIN cache \cup {cache_key} |->
                            IF k = cache_key THEN name ELSE cache[k]],
              events |-> <<"lookup", "reverse", "store", "sleep">>]
        ELSE [name |-> "Unknown_Location", cache |-> cache,
              events |-> <<"lookup", "reverse">>]

\* Variant: the delay follows a failed request too.
get_location_name_SleepOnFailure(lat, lon, cache, reply) ==
    LET cache_key == <<Round3(lat[1]), Round3(lon[1])>>
        name == IF reply.kind = "ok" THEN ComposeName(reply.address)
                ELSE "Unknown_Location"
    IN  IF Falsy(lat) \/ Falsy(lon)
        THEN [name |-> "Unknown_Location", cache |-> cache, events |-> <<>>]
        ELSE IF cache_key \in DOMAIN cache
        THEN [name |-> cache[cache_key], cache |-> cache, events |-> <<"lookup">>]
        ELSE [name |-> name,
              cache |-> [k \in DOMAIN cache \cup {cache_key} |->
                            IF k = cache_key THEN name ELSE cache[k]],
              events |-> <<"lookup", "reverse", "store", "sleep">>]

\* Variant: the delay comes before the cache is written.
get_location_name_SleepBeforeStore(lat, lon, cache, reply) ==
    LET cache_key == <<Round3(lat[1]), Round3(lon[1])>>
        name == IF reply.kind = "ok" THEN ComposeName(reply.address)
                ELSE "Unknown_Location"
    IN  IF Falsy(lat) \/ Falsy(lon)
        THEN [name |-> "Unknown_Location", cache |-> cache, events |-> <<>>]
        ELSE IF cache_key \in DOMAIN cache
        THEN [name |-> cache[cache_key], cache |-> cache, events |-> <<"lookup">>]
        ELSE [name |-> name,
              cache |-> [k \in DOMAIN cache \cup {cache_key} |->
                            IF k = cache_key THEN name ELSE cache[k]],
              events |-> IF reply.kind = "ok"
                         THEN <<"lookup", "reverse", "sleep", "store">>
                         ELSE <<"lookup", "reverse", "store">>]

\* get_location_name(lat, lon) against the cache; `reply` is what the
\* geocoder answers if it is asked.  The result is the returned name, the
\* cache afterwards and the events of the call, in order: "lookup" (the
\* cache is consulted), "reverse" (an external request), "store" (the cache
\* is written), "sleep" (the one-second delay).
get_location_name(lat, lon, cache, reply) ==
    LET cache_key == <<Round3(lat[1]), Round3(lon[1])>>
        name == ComposeName(reply.address)
    IN  IF Falsy(lat) \/ Falsy(lon)
        THEN [name |-> "Unknown_Location", cache |-> cache, events |-> <<>>]
        ELSE IF cache_key \in DOMAIN cache
        THEN [name |-> cache[cache_key], cache |-> cache, events |-> <<"lookup">>]
        ELSE IF reply.kind = "ok"
        THEN [name |-> name,
              cache |-> [k \in DOMAIN cache \cup {cache_key} |->
                            IF k = cache_key THEN name ELSE cache[k]],
              events |-> <<"lookup", "reverse", "store", "sleep">>]
        ELSE [name |-> "Unknown_Location",
              cache |-> [k \in DOMAIN cache \cup {cache_key} |->
                            IF k = cache_key THEN "Unknown_Location" ELSE cache[k]],
              events |-> <<"lookup", "reverse", "store">>]

\* ----------------------------------------------------- DestinationBuilder
MonthNames ==
    <<"January", "February", "March", "April", "May", "June", "July",
      "August", "September", "October", "November", "December">>

\* f"{date_taken.month:02d}-{date_taken.strftime('%B')}"
MonthFolder(month) ==
    (IF month < 10 THEN "0" ELSE "") \o ToString(month) \o "-" \o MonthNames[month]

\* The output tree is a function from paths <<year, month, location, name>>
\* (below output_dir) to the content of the file there.
RECURSIVE FreeName(_, _, _, _)
\* counter = 1; while dest_file.exists(): dest_file = f"{stem}_{counter}{suffix}"
FreeName(fs, folder, file_path, counter) ==
    LET name == file_path.stem \o "_" \o ToString(counter) \o file_path.suffix
    IN  IF Append(folder, name) \in DOMAIN fs
        THEN FreeName(fs, folder, file_path, counter + 1)
        ELSE name

\* Variant: the bare name is used whether or not it exists.
DestName_NoCheck(fs, folder, file_path) == PathName(file_path)

\* Variant: the counter of the loop starts at 2.
DestName_FromTwo(fs, folder, file_path) ==
    IF Append(folder, PathName(file_path)) \in DOMAIN fs
    THEN FreeName(fs, folder, file_path, 2)
    ELSE PathName(file_path)

\* dest_file = dest_folder / Path(file_path).name, then the loop above
DestName(fs, folder, file_path) ==
    IF Append(folder, PathName(file_path)) \in DOMAIN fs
    THEN FreeName(fs, folder, file_path, 1)
    ELSE PathName(file_path)

\* ------------------------------------------------------------ process_file
\* Variant: the membership test never succeeds, no file is a duplicate.
IsDuplicate_Never(file_hash, seen) == file_hash # None /\ file_hash \in seen

\* Variant: a file whose digest could not be computed counts as a duplicate.
IsDuplicate_Unhashed(file_hash, seen) == file_hash = None \/ file_hash[1] \in seen

\* `if file_hash and file_hash in processed_files`
IsDuplicate(file_hash, seen) == file_hash # None /\ file_hash[1] \in seen

\* Variant: the set keeps the latest digest only.
MarkSeen_Replace(file_hash, seen) ==
    IF file_hash # None THEN {file_hash[1]} ELSE seen

\* `if file_hash: processed_files.add(file_hash)`, before any later step
MarkSeen(file_hash, seen) ==
    IF file_hash # None THEN seen \cup {file_hash[1]} ELSE seen

\* `get_location_name(lat, lon) if lat and lon else "Unknown_Location"`
HasCoordinate(coord) == ~Falsy(coord.lat) /\ ~Falsy(coord.lon)

\* process_file(file_path, output_dir, move_files) on the state (seen,
\* cache, fs).  `file` is the file at file_path as the disk holds it; `env`
\* gives the outcomes of the collaborators: reply (the geocoder's answer),
\* mkdir_ok, and copy, the outcome of shutil.copy2 / shutil.move: "ok",
\* "fail" (raises, nothing written), "partial" (raises, leaving an
\* incomplete file at the destination) or "kept" (raises after the whole
\* file is at the destination: shutil.move has copied it and cannot unlink
\* the source, shutil.copy2 has copied it and cannot copy its metadata; the
\* source stays).
process_file(file, seen, cache, fs, move_files, env) ==
    LET file_path == file.path
        file_hash == calculate_file_hash(file)
        file_ext == Lower(file_path.suffix)
        is_image == file_ext \in PHOTO_EXTENSIONS \/ file_ext \in IPHONE_EXTENSIONS
        is_video == ~is_image /\ file_ext \in VIDEO_EXTENSIONS
        exif_data == IF is_image THEN get_exif_data(file) ELSE EmptyExif
        video_data == IF is_video THEN get_video_metadata(file) ELSE <<>>
        date_taken == get_date_taken(file, exif_data, video_data)
        coord == IF ExifTruthy(exif_data) THEN get_gps_info(exif_data)
                 ELSE [lat |-> None, lon |-> None]
        year == IF date_taken # None THEN ToString(date_taken[1][1]) ELSE "Unknown_Year"
        month == IF date_taken # None THEN MonthFolder(date_taken[1][2])
                 ELSE "Unknown_Month"
        loc == IF HasCoordinate(coord)
               THEN get_location_name(coord.lat, coord.lon, cache, env.reply)
               ELSE [name |-> "Unknown_Location", cache |-> cache, events |-> <<>>]
        dest_folder == <<year, month, loc.name>>
        dest_file == Append(dest_folder, DestName(fs, dest_folder, file_path))
        early == <<"hash">>
        steps == <<"hash", "extract", "date">> \o loc.events \o <<"mkdir">>
        base == [result |-> FALSE, seen |-> MarkSeen(file_hash, seen),
                 cache |-> loc.cache, fs |-> fs, events |-> steps,
                 dest |-> None, removed |-> FALSE, skipped |-> FALSE,
                 date |-> date_taken, coord |-> coord, location |-> loc.name]
    IN  IF IsDuplicate(file_hash, seen)
        THEN [base EXCEPT !.seen = seen, !.cache = cache, !.events = early,
                          !.skipped = TRUE, !.date = None,
                          !.coord = [lat |-> None, lon |-> None],
                          !.location = ""]
        ELSE IF ~env.mkdir_ok THEN base
        ELSE IF env.copy = "fail"
        THEN [base EXCEPT !.events = steps \o <<"exists", "write">>,
                          !.dest = Some(dest_file)]
        ELSE IF env.copy = "partial"
        THEN [base EXCEPT !.events = steps \o <<"exists", "write">>,
                          !.dest = Some(dest_file),
                          !.fs = [p \in DOMAIN fs \cup {dest_file} |->
                                    IF p = dest_file THEN "partial" ELSE fs[p]]]
        ELSE IF env.copy = "kept"
        THEN [base EXCEPT !.events = steps \o <<"exists", "write">>,
                          !.dest = Some(dest_file),
                          !.fs = [p \in DOMAIN fs \cup {dest_file} |->
                                    IF p = dest_file THEN file.content ELSE fs[p]]]
        ELSE [base EXCEPT !.result = TRUE,
                          !.events = steps \o <<"exists", "write">>,
                          !.dest = Some(dest_file),
                          !.removed = move_files,
                          !.fs = [p \in DOMAIN fs \cup {dest_file} |->
                                    IF p = dest_file THEN file.content ELSE fs[p]]]

\* ------------------------------------------------------------------ inputs
\* The paths a source tree is drawn from: [dir, stem, suffix].
SourcePaths ==
    << [dir |-> "a", stem |-> "img_1", suffix |-> ".jpg"],
       [dir |-> "a", stem |-> "img", suffix |-> ".jpg"],
       [dir |-> "b", stem |-> "img", suffix |-> ".jpg"],
       [dir |-> "b", stem |-> "notes", suffix |-> ".txt"],
       [dir |-> "c", stem |-> "pic", suffix |-> ".JPG"],
       [dir |-> "c", stem |-> "clip", suffix |-> ".mp4"] >>

\* The source trees of the runs: at most n consecutive files of walk.
Windows(walk, n) ==
    { SubSeq(walk, i, j) : i \in 1..Len(walk), j \in 0..Len(walk) }
    \cap UNION { [1..k -> Range(walk)] : k \in 0..n }

Contents == {"c1", "c2"}
D1 == <<2020, 1>>
D2 == <<2021, 12>>
D3 == <<2024, 6>>

RawDate(sep, ym, frac) == [sep |-> sep, ym |-> ym, frac |-> frac]

\* The date tags of the images of a run.
RunTagMaps ==
    { <<>>,
      [t \in {"DateTimeOriginal"} |-> RawDate("colon", D1, FALSE)],
      [t \in {"DateTimeDigitized"} |-> RawDate("colon", D2, FALSE)],
      [t \in {"DateTimeOriginal", "DateTime", "DateTimeDigitized"} |->
          CASE t = "DateTimeOriginal" -> RawDate("junk", D1, FALSE)
            [] t = "DateTime" -> RawDate("colon", D2, FALSE)
            [] OTHER -> RawDate("colon", D1, FALSE)] }

Dms(d, m, s) == [kind |-> "tuple", comps |-> <<Some(d), Some(m), Some(s)>>]
FaultyDms == [kind |-> "tuple", comps |-> <<Some(0), None, Some(1)>>]

GpsDict(lat, lat_ref, lon) ==
    [k \in {"GPSLatitude", "GPSLatitudeRef", "GPSLongitude"} |->
        CASE k = "GPSLatitude" -> lat
          [] k = "GPSLatitudeRef" -> lat_ref
          [] OTHER -> lon]

\* The GPSInfo dicts of the images of a run, all at a longitude of 2
\* arc-seconds east: latitudes of 0..MaxSec arc-seconds north, 1 arc-second
\* south, a latitude with a faulty component; and one without a longitude.
RunGpsMaps ==
    { GpsDict(Dms(0, 0, s), "N", Dms(0, 0, 2)) : s \in 0..MaxSec }
    \cup { GpsDict(Dms(0, 0, 1), "S", Dms(0, 0, 2)),
           GpsDict(FaultyDms, "N", Dms(0, 0, 2)),
           [k \in {"GPSLatitude"} |-> Dms(0, 0, 2)] }

RunExif ==
    { [tags |-> t, gps |-> <<>>] : t \in RunTagMaps }
    \cup { [tags |-> <<>>, gps |-> g] : g \in RunGpsMaps }

Line(label, sep, value) == [label |-> label, sep |-> sep, value |-> value]

\* The exported metadata lines of the videos of a run.
RunLines ==
    { <<>>,
      <<Line("Creation date", TRUE, RawDate("dash", D1, FALSE))>>,
      <<Line("Creation date", TRUE, RawDate("T", D1, TRUE)),
        Line("Date", TRUE, RawDate("colon", D2, FALSE))>>,
      <<Line("Duration", TRUE, RawDate("junk", D1, FALSE)),
        Line("Creation date", FALSE, RawDate("dash", D2, FALSE))>>,
      <<Line("Creation date", TRUE, RawDate("junk", D1, FALSE))>>,
      <<Line("Creation date", TRUE, RawDate("dash", D1, FALSE)),
        Line("Duration", TRUE, RawDate("junk_Date", D1, FALSE))>> }

File(path, content, readable, ctime, image_ok, exif, video_ok, lines) ==
    [path |-> path, content |-> content, readable |-> readable, ctime |-> ctime,
     image_ok |-> image_ok, exif |-> exif, video_ok |-> video_ok, lines |-> lines]

\* An image taken 2 arc-seconds north, 2 arc-seconds east, in January 2020.
TaggedExif ==
    [tags |-> [t \in {"DateTimeOriginal"} |-> RawDate("colon", D1, FALSE)],
     gps |-> GpsDict(Dms(0, 0, 2), "N", Dms(0, 0, 2))]

\* The files that may be found at an accepted path: every content, readable
\* or not, without metadata; every content with a position; every metadata
\* of the run; a file without a creation time; a file whose metadata cannot
\* be read.
FilesAt(path) ==
    IF Lower(path.suffix) \in VIDEO_EXTENSIONS
    THEN { File(path, c, r, Some(D3), FALSE, EmptyExif, TRUE, <<>>) :
             c \in Contents, r \in BOOLEAN }
         \cup { File(path, "c2", TRUE, Some(D3), FALSE, EmptyExif, TRUE, l) :
                  l \in RunLines }
         \cup { File(path, "c2", TRUE, None, FALSE, EmptyExif, TRUE, <<>>),
                File(path, "c1", TRUE, Some(D3), FALSE, EmptyExif, FALSE,
                     <<Line("Creation date", TRUE, RawDate("dash", D1, FALSE))>>) }
    ELSE { File(path, c, r, Some(D3), TRUE, EmptyExif, FALSE, <<>>) :
             c \in Contents, r \in BOOLEAN }
         \cup { File(path, c, TRUE, Some(D3), TRUE,
                     [tags |-> <<>>, gps |-> GpsDict(Dms(0, 0, 2), "N", Dms(0, 0, 2))],
                     FALSE, <<>>) : c \in Contents }
         \cup { File(path, "c2", TRUE, Some(D3), TRUE, e, FALSE, <<>>) :
                  e \in RunExif }
         \cup { File(path, "c2", TRUE, None, TRUE, EmptyExif, FALSE, <<>>) }
         \cup { File(path, "c1", TRUE, Some(D3), FALSE, TaggedExif, FALSE, <<>>) }

\* The answers of the reverse geocoder.
Replies ==
    { [kind |-> "raise", address |-> <<>>],
      [kind |-> "none", address |-> <<>>],
      [kind |-> "ok", address |->
          [f \in {"town", "country"} |->
              IF f = "town" THEN <<"S", "t", " ", "I", ",", "v", "e", "s">>
              ELSE <<"U", "K">>]] }

Envs ==
    [reply : Replies, mkdir_ok : BOOLEAN, copy : {"ok", "fail", "partial", "kept"}]

\* A file that another program left under the output root before the run.
OldPath == <<"2024", "06-June", "Unknown_Location", "img.jpg">>
InitialTrees == { <<>>, [p \in {OldPath} |-> "old"] }

\* ------------------------------------------------------------------- state
VARIABLES
    pc,               \* where the program is: "main", "walk", "loop", "done"
    args,             \* of main: whether the source exists, whether --dry-run
    exit_code,        \* the exit status of main, None while it runs
    output_exists,    \* whether the output directory exists
    probe,            \* argument and result of a function applied alone
    source_tree,      \* the files under source_dir, in os.walk order
    source_present,   \* the paths of the source tree that still exist
    move_files,       \* the mode: move (TRUE) or copy (FALSE)
    all_files,        \* the accepted files, in list order
    idx,              \* index in all_files of the next file of the loop
    processed_files,  \* the digests seen so far
    location_cache,   \* rounded coordinate -> location name
    out_fs,           \* the tree under output_dir: path -> content
    success_count,    \* the number of process_file calls that returned True
    last,             \* what the latest process_file call did
    called,           \* the paths process_file was called on, in order
    written,          \* the destination paths of the completed copies/moves
    inputs,           \* content -> <<files processed, of which unhashed>>
    requests          \* rounded coordinate -> external requests issued

vars ==
    <<pc, args, exit_code, output_exists, probe, source_tree, source_present, move_files, all_files, idx,
      processed_files, location_cache, out_fs, success_count, last, called,
      written, inputs, requests>>

\* No call yet: `called` is empty and the fields of `last` mean nothing.
NoFile ==
    File([dir |-> "", stem |-> "", suffix |-> ""], "", FALSE, None, FALSE,
         EmptyExif, FALSE, <<>>)
NoCall ==
    [file |-> NoFile, hash |-> None, result |-> FALSE, skipped |-> FALSE,
     events |-> <<>>, dest |-> None, date |-> None,
     coord |-> [lat |-> None, lon |-> None], location |-> "", reply |-> ""]

\* No function is applied alone in a run of main.
NoProbe == [arg |-> <<>>, result |-> <<>>]

Init ==
    /\ pc = "main"
    /\ args \in [source_exists : BOOLEAN, dry_run : BOOLEAN]
    /\ exit_code = None
    /\ probe = NoProbe
    /\ source_tree \in IF args.source_exists THEN Windows(SourcePaths, MaxFiles)
                       ELSE {<<>>}
    /\ source_present = Range(source_tree)
    /\ move_files \in BOOLEAN
    /\ all_files = <<>>
    /\ idx = 1
    /\ processed_files = {}
    /\ location_cache = <<>>
    /\ out_fs \in InitialTrees
    /\ output_exists = (out_fs # <<>>)
    /\ success_count = 0
    /\ last = NoCall
    /\ called = <<>>
    /\ written = <<>>
    /\ inputs = [c \in Contents |-> <<0, 0>>]
    /\ requests = <<>>

\* os.makedirs(args.output, exist_ok=True): TRUE when it returns, FALSE when
\* it raises: the directory is not there and cannot be made (its parent is
\* not writable, the path is a regular file), or it is there and cannot be
\* examined (its parent is not searchable).
MakedirsOutcomes(exists) == BOOLEAN

\* Variant: --dry-run is ignored.
Main_DryRunOrganizes ==
    /\ pc = "main"
    /\ IF ~args.source_exists
       THEN pc' = "done" /\ exit_code' = Some(1) /\ UNCHANGED output_exists
       ELSE \E made \in MakedirsOutcomes(output_exists) :
              IF made
              THEN pc' = "walk" /\ output_exists' = TRUE /\ UNCHANGED exit_code
              ELSE pc' = "done" /\ exit_code' = Some(1) /\ UNCHANGED output_exists
    /\ UNCHANGED <<args, probe, source_tree, source_present, move_files,
                   all_files, idx, processed_files, location_cache, out_fs,
                   success_count, last, called, written, inputs, requests>>

\* main, up to the call of organize_media: return 1 when the source does not
\* exist, 0 on --dry-run; else create the output directory and go on.  When
\* os.makedirs raises, the exception leaves main: the process ends with
\* status 1, organize_media is not called.
Main ==
    /\ pc = "main"
    /\ IF ~args.source_exists
       THEN pc' = "done" /\ exit_code' = Some(1) /\ UNCHANGED output_exists
       ELSE IF args.dry_run
       THEN pc' = "done" /\ exit_code' = Some(0) /\ UNCHANGED output_exists
       ELSE \E made \in MakedirsOutcomes(output_exists) :
              IF made
              THEN pc' = "walk" /\ output_exists' = TRUE /\ UNCHANGED exit_code
              ELSE pc' = "done" /\ exit_code' = Some(1) /\ UNCHANGED output_exists
    /\ UNCHANGED <<args, probe, source_tree, source_present, move_files,
                   all_files, idx, processed_files, location_cache, out_fs,
                   success_count, last, called, written, inputs, requests>>

\* organize_media, up to the loop: return when the source does not exist;
\* collect the supported files of the walk; return when there is none.
\* main returns 0 when organize_media returns.
Walk ==
    /\ pc = "walk"
    /\ all_files' = IF args.source_exists
                    THEN SelectSeq(source_tree, is_supported_file) ELSE <<>>
    /\ pc' = IF all_files' = <<>> THEN "done" ELSE "loop"
    /\ exit_code' = IF all_files' = <<>> THEN Some(0) ELSE exit_code
    /\ UNCHANGED <<args, output_exists, probe>>
    /\ UNCHANGED <<source_tree, source_present, move_files, idx,
                   processed_files, location_cache, out_fs, success_count,
                   last, called, written, inputs, requests>>

\* The cache key of a coordinate that reaches the geocoder.
KeyOf(coord) == <<Round3(coord.lat[1]), Round3(coord.lon[1])>>

\* Whether the events of a call contain an external request.
Asked(events) == \E i \in DOMAIN events : events[i] = "reverse"

\* Variant: the file leaves the source tree whatever the call did.
SourceAfter_Always(present, path, removed) == present \ {path}

\* shutil.move takes the file out of the source tree, shutil.copy2 does not.
SourceAfter(present, path, removed) ==
    IF removed THEN present \ {path} ELSE present

\* What a call of process_file may do, over every behaviour of the geocoder
\* and of the file system: the call, with the answer the geocoder gave in it
\* ("" when it was not asked).
Outcomes(file, seen, cache, fs, move) ==
    { [r |-> x.r,
       reply |-> IF Asked(x.r.events) THEN x.env.reply.kind ELSE ""] :
        x \in { [r |-> process_file(file, seen, cache, fs, move, env),
                 env |-> env] : env \in Envs } }

CountSuccess(count, result) == IF result THEN count + 1 ELSE count

\* One iteration of the loop of organize_media:
\* `if process_file(file_path, output_dir, move_files): success_count += 1`
ProcessNext ==
    /\ pc = "loop"
    /\ idx <= Len(all_files)
    /\ \E file \in FilesAt(all_files[idx]) :
       \E o \in Outcomes(file, processed_files, location_cache, out_fs,
                       move_files) :
         LET r == o.r
             asked == Asked(r.events)
             key == KeyOf(r.coord)
         IN  /\ processed_files' = r.seen
             /\ location_cache' = r.cache
             /\ out_fs' = r.fs
             /\ success_count' = CountSuccess(success_count, r.result)
             /\ source_present' = SourceAfter(source_present, file.path, r.removed)
             /\ last' = [file |-> file, hash |-> calculate_file_hash(file),
                         result |-> r.result, skipped |-> r.skipped,
                         events |-> r.events, dest |-> r.dest, date |-> r.date,
                         coord |-> r.coord, location |-> r.location,
                         reply |-> o.reply]
             /\ called' = Append(called, file.path)
             /\ written' = IF r.result THEN Append(written, r.dest[1]) ELSE written
             /\ inputs' = [inputs EXCEPT ![file.content] =
                              <<@[1] + 1, @[2] + (IF file.readable THEN 0 ELSE 1)>>]
             /\ requests' = IF ~asked THEN requests
                            ELSE [k \in DOMAIN requests \cup {key} |->
                                    IF k \in DOMAIN requests
                                    THEN requests[k] + (IF k = key THEN 1 ELSE 0)
                                    ELSE 1]
    /\ idx' = idx + 1
    /\ UNCHANGED <<pc, args, exit_code, output_exists, probe, source_tree,
                   move_files, all_files>>

\* print(f"... Organizing complete! ..."): TRUE when it returns, FALSE when
\* it raises (the pictograph cannot be encoded for the standard output).
PrintOutcomes == BOOLEAN

\* After the loop: the counts are logged and printed, organize_media
\* returns and main returns 0.  When the print raises, the exception leaves
\* organize_media and main: the process ends with status 1.
Finish ==
    /\ pc = "loop"
    /\ idx > Len(all_files)
    /\ pc' = "done"
    /\ \E printed \in PrintOutcomes :
          exit_code' = IF printed THEN Some(0) ELSE Some(1)
    /\ UNCHANGED <<args, output_exists, probe>>
    /\ UNCHANGED <<source_tree, source_present, move_files, all_files, idx,
                   processed_files, location_cache, out_fs, success_count,
                   last, called, written, inputs, requests>>

Next == Main \/ Walk \/ ProcessNext \/ Finish

Spec == Init /\ [][Next]_vars

\* ------------------------------------------------- get_date_taken, alone
\* The values of an EXIF date tag.
RawExifValues ==
    { RawDate("colon", D1, FALSE), RawDate("colon", D2, FALSE),
      RawDate("junk", D1, FALSE), RawDate("dash", D2, FALSE) }
DateTags == {"DateTimeOriginal", "DateTime", "DateTimeDigitized"}
AllTagMaps == UNION { [S -> RawExifValues] : S \in SUBSET DateTags }

\* The arguments of get_date_taken: every tag map, with or without a video
\* creation date and a file creation time.
DateInputs ==
    { File(SourcePaths[1], "c1", TRUE, t, TRUE, [tags |-> m, gps |-> <<>>], TRUE, l) :
        t \in {None, Some(D3)}, m \in AllTagMaps,
        l \in { <<>>, <<Line("Creation date", TRUE, RawDate("T", D1, TRUE))>> } }

\* ------------------------------------------------ get_video_metadata alone
MaxLines == 2

\* The lines a video may export: a label, with or without ": ", a value.
VideoLabels == {"Creation date", "Date", "Duration"}
VideoValues ==
    { RawDate("dash", D1, FALSE), RawDate("colon", D2, FALSE),
      RawDate("junk_Date", D1, FALSE) }
VideoLines == { Line(l, sep, v) : l \in VideoLabels, sep \in BOOLEAN, v \in VideoValues }

\* The videos get_video_metadata is applied to: parsed or not, with up to
\* MaxLines exported lines.
VideoInputs ==
    { [video_ok |-> ok, lines |-> ls] :
        ok \in BOOLEAN, ls \in UNION { [1..n -> VideoLines] : n \in 0..MaxLines } }

\* The other variables of a function applied alone.
Idle ==
    /\ args = [source_exists |-> FALSE, dry_run |-> FALSE]
    /\ exit_code = None
    /\ output_exists = FALSE
    /\ source_tree = <<>>
    /\ source_present = {}
    /\ move_files = FALSE
    /\ all_files = <<>>
    /\ idx = 1
    /\ processed_files = {}
    /\ location_cache = <<>>
    /\ out_fs = <<>>
    /\ success_count = 0
    /\ called = <<>>
    /\ written = <<>>
    /\ inputs = [c \in Contents |-> <<0, 0>>]
    /\ requests = <<>>

InitVideo ==
    /\ pc = "apply"
    /\ probe \in { [arg |-> v, result |-> <<>>] : v \in VideoInputs }
    /\ last = NoCall
    /\ Idle

ApplyVideo ==
    /\ pc = "apply"
    /\ pc' = "applied"
    /\ probe' = [probe EXCEPT !.result = get_video_metadata(probe.arg)]
    /\ UNCHANGED <<args, exit_code, output_exists, source_tree, source_present,
                   move_files, all_files, idx, processed_files, location_cache,
                   out_fs, success_count, last, called, written, inputs, requests>>

SpecVideo == InitVideo /\ [][ApplyVideo]_vars

\* ------------------------------------------------------ get_gps_info alone
\* The values a latitude or longitude entry may hold: triplets, a triplet
\* with a component float() raises on, a pair, an empty tuple, decimal
\* numbers (one of them zero), a text that is no number.
GpsValues ==
    { Dms(0, 0, 2), Dms(1, 2, 3), FaultyDms,
      [kind |-> "tuple", comps |-> <<Some(1), Some(2)>>],
      [kind |-> "tuple", comps |-> <<>>],
      [kind |-> "scalar", comps |-> <<Some(2)>>],
      [kind |-> "scalar", comps |-> <<Some(0)>>],
      [kind |-> "scalar", comps |-> <<None>>] }

\* The dict with the entries that are given (None: the key is absent).
GpsEntries(lat, lat_ref, lon, lon_ref) ==
    LET given == [k \in {"GPSLatitude", "GPSLatitudeRef", "GPSLongitude",
                         "GPSLongitudeRef"} |->
                     CASE k = "GPSLatitude" -> lat
                       [] k = "GPSLatitudeRef" -> lat_ref
                       [] k = "GPSLongitude" -> lon
                       [] OTHER -> lon_ref]
    IN  [k \in { x \in DOMAIN given : given[x] # None } |-> given[k][1]]

Optional(S) == {None} \cup { Some(x) : x \in S }

\* The tag dicts get_gps_info is applied to.
GpsInputs ==
    { [tags |-> <<>>, gps |-> GpsEntries(lat, lat_ref, lon, lon_ref)] :
        lat \in Optional(GpsValues), lat_ref \in Optional({"N", "S"}),
        lon \in Optional(GpsValues), lon_ref \in Optional({"E", "W"}) }

InitGps ==
    /\ pc = "apply"
    /\ probe \in { [arg |-> e, result |-> <<>>] : e \in GpsInputs }
    /\ last = NoCall
    /\ Idle

ApplyGps ==
    /\ pc = "apply"
    /\ pc' = "applied"
    /\ probe' = [probe EXCEPT !.result = get_gps_info(probe.arg)]
    /\ UNCHANGED <<args, exit_code, output_exists, source_tree, source_present,
                   move_files, all_files, idx, processed_files, location_cache,
                   out_fs, success_count, last, called, written, inputs, requests>>

SpecGps == InitGps /\ [][ApplyGps]_vars

\* ------------------------------------------------- get_location_name alone
\* The texts of an answered address: a city and a country with spaces and
\* commas, an empty text, and one letter for each of the other fields.
CityText == <<"S", "t", " ", "I", ",", "v">>
CountryText == <<"U", ",", " ", "K">>
FieldLetter ==
    [f \in {"town", "village", "suburb", "neighbourhood", "county", "state"} |->
        CASE f = "town" -> <<"T">>
          [] f = "village" -> <<"V">>
          [] f = "suburb" -> <<"B">>
          [] f = "neighbourhood" -> <<"N">>
          [] f = "county" -> <<"C">>
          [] OTHER -> <<"E">>]

\* The addresses the geocoder may answer with: every subset of the fields,
\* the city and the country also as an empty text.
Addresses ==
    { [f \in given \cup DOMAIN cc |->
          IF f \in given THEN FieldLetter[f] ELSE cc[f]] :
        given \in SUBSET DOMAIN FieldLetter,
        cc \in UNION { [d -> {<<>>, CityText, CountryText}] :
                          d \in SUBSET {"city", "country"} } }

InitName ==
    /\ pc = "apply"
    /\ probe \in { [arg |-> a, result |-> <<>>] : a \in Addresses }
    /\ last = NoCall
    /\ Idle

\* get_location_name at 2 arc-seconds north and east, the geocoder
\* answering with the address: the name is returned and stored in the
\* cache, one request is issued.
ApplyName ==
    /\ pc = "apply"
    /\ pc' = "applied"
    /\ LET r == get_location_name(Some(2), Some(2), location_cache,
                                  [kind |-> "ok", address |-> probe.arg])
           key == KeyOf([lat |-> Some(2), lon |-> Some(2)])
       IN  /\ probe' = [probe EXCEPT !.result = r.name]
           /\ location_cache' = r.cache
           /\ requests' = IF Asked(r.events)
                          THEN [k \in DOMAIN requests \cup {key} |->
                                  IF k \in DOMAIN requests
                                  THEN requests[k] + (IF k = key THEN 1 ELSE 0)
                                  ELSE 1]
                          ELSE requests
    /\ UNCHANGED <<args, exit_code, output_exists, source_tree, source_present,
                   move_files, all_files, idx, processed_files, out_fs,
                   success_count, last, called, written, inputs>>

SpecName == InitName /\ [][ApplyName]_vars

InitDate ==
    /\ pc = "date"
    /\ args = [source_exists |-> FALSE, dry_run |-> FALSE]
    /\ exit_code = None
    /\ output_exists = FALSE
    /\ probe = NoProbe
    /\ last \in { [NoCall EXCEPT !.file = f] : f \in DateInputs }
    /\ source_tree = <<>>
    /\ source_present = {}
    /\ move_files = FALSE
    /\ all_files = <<>>
    /\ idx = 1
    /\ processed_files = {}
    /\ location_cache = <<>>
    /\ out_fs = <<>>
    /\ success_count = 0
    /\ called = <<>>
    /\ written = <<>>
    /\ inputs = [c \in Contents |-> <<0, 0>>]
    /\ requests = <<>>

\* date_taken = get_date_taken(file_path, exif_data, video_data)
ResolveDate ==
    /\ pc = "date"
    /\ pc' = "date_done"
    /\ last' = [last EXCEPT !.date =
                   get_date_taken(last.file, last.file.exif,
                                  ScanLines(last.file.lines, <<>>))]
    /\ UNCHANGED <<args, exit_code, output_exists, probe>>
    /\ UNCHANGED <<source_tree, source_present, move_files, all_files, idx,
                   processed_files, location_cache, out_fs, success_count,
                   called, written, inputs, requests>>

SpecDate == InitDate /\ [][ResolveDate]_vars

TypeOK ==
    /\ pc \in {"main", "walk", "loop", "done", "date", "date_done",
              "apply", "applied"}
    /\ idx \in 1..(MaxFiles + 1)
    /\ success_count \in 0..MaxFiles

\* ================================================================== claims
\* A step of the run in which process_file was called.
Calls == called' # called
Has(events, e) == \E i \in DOMAIN events : events[i] = e
\* The file of the latest call carried metadata of its own.
HasMetadata(file) == get_exif_data(file) # EmptyExif \/ get_video_metadata(file) # <<>>
\* The paths of the output tree that hold content c.
Copies(c) == {p \in DOMAIN out_fs : out_fs[p] = c}

\* C1: once a digest is in processed_files, a call of process_file on a file
\* with that digest only hashes the file and returns False: no metadata
\* extraction, date resolution, geocoding request, directory creation or
\* write, and no change to the digests, the cache, the output tree or the
\* success count.
C1_SeenDigestSkipped ==
    [][ (Calls /\ last'.hash # None /\ last'.hash[1] \in processed_files)
        => /\ last'.events = <<"hash">>
           /\ ~last'.result
           /\ processed_files' = processed_files
           /\ location_cache' = location_cache
           /\ requests' = requests
           /\ out_fs' = out_fs
           /\ written' = written
           /\ source_present' = source_present
           /\ success_count' = success_count ]_vars

\* C1 witness: a second file with the content of an earlier one, carrying a
\* position of its own, was skipped.
C1_Witness ==
    /\ last.skipped
    /\ HasCoordinate(get_gps_info(get_exif_data(last.file)))
    /\ inputs[last.file.content][1] >= 2
    /\ requests = <<>>

\* C2: at the end of a run in which several files have the same content and
\* all of them were hashed, the output tree holds exactly one copy of that
\* content.
C2_ExactlyOneOutput ==
    pc = "done" =>
        \A c \in Contents :
            (inputs[c][1] >= 2 /\ inputs[c][2] = 0) => Cardinality(Copies(c)) = 1

\* C3: no rounded-coordinate key is requested twice from the geocoder: a
\* call that finds its key in the cache issues no request and returns the
\* cached name; a call that misses issues one request and stores its key,
\* whether the request succeeds or not.
C3_OneRequestPerKey ==
    [][ Calls =>
        /\ \A k \in DOMAIN requests' : requests'[k] = 1
        /\ DOMAIN requests' = DOMAIN location_cache'
        /\ Has(last'.events, "lookup") =>
             LET key == KeyOf(last'.coord)
             IN  IF key \in DOMAIN location_cache
                 THEN /\ requests' = requests
                      /\ ~Has(last'.events, "reverse")
                      /\ last'.location = location_cache[key]
                 ELSE /\ Has(last'.events, "reverse")
                      /\ key \in DOMAIN location_cache'
                      /\ location_cache'[key] = last'.location ]_vars

\* C3 witness: after a file at 2 arc-seconds north whose request failed, a
\* file at 3 arc-seconds north, which rounds to the same key, was answered
\* from the cache.
C3_Witness ==
    /\ Has(last.events, "lookup")
    /\ ~Has(last.events, "reverse")
    /\ requests[KeyOf(last.coord)] = 1
    /\ last.location = "Unknown_Location"
    /\ last.coord.lat = Some(3)
    /\ inputs["c1"][1] = 1

\* C4: the path of every write does not exist at the moment of the write,
\* was not written before in the run, and the write changes no other file
\* of the output tree.
C4_NoOverwrite ==
    [][ (Calls /\ Has(last'.events, "write"))
        => /\ last'.dest[1] \notin DOMAIN out_fs
           /\ \A i \in DOMAIN written : written[i] # last'.dest[1]
           /\ \A p \in DOMAIN out_fs : out_fs'[p] = out_fs[p] ]_vars

\* C4 witness: a file met its own name in the destination folder and was
\* written beside the file that was there before the run.
C4_Witness ==
    /\ last.result
    /\ last.dest[1][4] # PathName(last.file.path)
    /\ OldPath \in DOMAIN out_fs
    /\ out_fs[OldPath] = "old"
    /\ SubSeq(last.dest[1], 1, 3) = SubSeq(OldPath, 1, 3)

\* stem_N + ext
Suffixed(file_path, n) ==
    file_path.stem \o "_" \o ToString(n) \o file_path.suffix

\* C5: the name chosen for a write is the bare source name if that is free
\* in the destination folder, otherwise stem_N+ext for the smallest N >= 1
\* that is free.
C5_SmallestFreeSuffix ==
    [][ (Calls /\ Has(last'.events, "write"))
        => LET folder == SubSeq(last'.dest[1], 1, 3)
               name == last'.dest[1][4]
               path == last'.file.path
               Taken(n) == Append(folder, n) \in DOMAIN out_fs
           IN  IF ~Taken(PathName(path)) THEN name = PathName(path)
               ELSE \E n \in 1..(Cardinality(DOMAIN out_fs) + 1) :
                        /\ name = Suffixed(path, n)
                        /\ ~Taken(name)
                        /\ \A m \in 1..(n - 1) : Taken(Suffixed(path, m)) ]_vars

\* C5 witness: with img.jpg there before the run, two sources named img.jpg
\* were written to its folder as img_1.jpg and img_2.jpg.
C5_Witness ==
    /\ OldPath \in DOMAIN out_fs
    /\ out_fs[OldPath] = "old"
    /\ Len(called) = 2
    /\ written = << <<"2024", "06-June", "Unknown_Location", "img_1.jpg">>,
                    <<"2024", "06-June", "Unknown_Location", "img_2.jpg">> >>
    /\ called[1].stem = "img" /\ called[2].stem = "img"

\* strptime of an EXIF tag of the latest file with the EXIF format.
TagDate(tag) ==
    IF tag \in DOMAIN last.file.exif.tags
    THEN strptime(last.file.exif.tags[tag], "colon") ELSE None

\* C6 as stated: the original-capture value wins when it parses; when it
\* does not and the digitized and generic tags parse with different values,
\* the digitized value wins.
C6_DigitizedBeforeGeneric ==
    pc = "date_done" =>
        /\ TagDate("DateTimeOriginal") # None
              => last.date = TagDate("DateTimeOriginal")
        /\ ( /\ TagDate("DateTimeOriginal") = None
             /\ TagDate("DateTimeDigitized") # None
             /\ TagDate("DateTime") # None
             /\ TagDate("DateTimeDigitized") # TagDate("DateTime") )
              => last.date = TagDate("DateTimeDigitized")

\* C6 amended: the order is original-capture, generic, digitized: the
\* original-capture value wins when it parses; else the generic value when
\* it parses; else the digitized value when it parses.
C6_GenericBeforeDigitized ==
    pc = "date_done" =>
        /\ TagDate("DateTimeOriginal") # None
              => last.date = TagDate("DateTimeOriginal")
        /\ (TagDate("DateTimeOriginal") = None /\ TagDate("DateTime") # None)
              => last.date = TagDate("DateTime")
        /\ ( /\ TagDate("DateTimeOriginal") = None
             /\ TagDate("DateTime") = None
             /\ TagDate("DateTimeDigitized") # None )
              => last.date = TagDate("DateTimeDigitized")

\* C6 witness: the original-capture tag does not parse, the two others
\* parse with different values, and the generic value was returned.
C6_Witness ==
    /\ pc = "date_done"
    /\ "DateTimeOriginal" \in DOMAIN last.file.exif.tags
    /\ TagDate("DateTimeOriginal") = None
    /\ TagDate("DateTimeDigitized") = Some(D1)
    /\ TagDate("DateTime") = Some(D2)
    /\ last.date = Some(D2)

\* The latest call wrote a file that exists on disk (its creation time can
\* be read) and has no date tag, no position and no video creation date.
WroteBareFile ==
    /\ last.result
    /\ last.file.ctime # None
    /\ ~HasMetadata(last.file)

\* C7 as stated: a file without metadata is written to
\* Unknown_Year/Unknown_Month/Unknown_Location/<name>.
C7_UnknownFolders ==
    WroteBareFile =>
        last.dest[1] = <<"Unknown_Year", "Unknown_Month", "Unknown_Location",
                         PathName(last.file.path)>>

\* C7 amended: a file without metadata, when it is written, goes to
\* <year>/<MM-MonthName>/Unknown_Location of its file-system creation time,
\* under its name or its name with a collision suffix; the folders are
\* Unknown_Year/Unknown_Month only when the creation time cannot be read.
C7_CreationTimeFolders ==
    (last.result /\ ~HasMetadata(last.file)) =>
        /\ SubSeq(last.dest[1], 1, 3) =
              IF last.file.ctime = Some(D3)
              THEN <<"2024", "06-June", "Unknown_Location">>
              ELSE <<"Unknown_Year", "Unknown_Month", "Unknown_Location">>
        /\ last.file.ctime \in {None, Some(D3)}
        /\ \/ last.dest[1][4] = PathName(last.file.path)
           \/ \E n \in 1..(Cardinality(DOMAIN out_fs) + 1) :
                 last.dest[1][4] = Suffixed(last.file.path, n)

\* C7 witness: a bare file created in June 2024 was written to 2024/06-June.
C7_Witness ==
    /\ WroteBareFile
    /\ last.dest[1] = <<"2024", "06-June", "Unknown_Location",
                        PathName(last.file.path)>>

\* C8 as stated: whatever fails, the run is never stuck before its end,
\* process_file is called once on every accepted file in list order, and
\* the success count is the number of files copied or moved to the output,
\* which never exceeds the number of files.  (A file of the run is under the
\* output when a path there holds its whole content.)
C8_RunCompletes ==
    /\ pc # "done" => ENABLED Next
    /\ pc = "loop" => Len(called) = idx - 1
    /\ called = SubSeq(all_files, 1, Len(called))
    /\ pc = "done" => called = all_files
    /\ success_count = Len(written)
    /\ Cardinality({written[i] : i \in DOMAIN written}) = success_count
    /\ Cardinality({p \in DOMAIN out_fs : out_fs[p] \in Contents}) = success_count
    /\ success_count <= Len(all_files)

\* C9: a file whose digest cannot be computed is neither skipped nor failed
\* for that: the digests are unchanged and the call goes on through
\* extraction, date resolution and directory creation to the write.
C9_UnhashedProcessed ==
    [][ (Calls /\ last'.hash = None)
        => /\ processed_files' = processed_files
           /\ ~last'.skipped
           /\ SubSeq(last'.events, 1, 3) = <<"hash", "extract", "date">>
           /\ Has(last'.events, "mkdir")
           /\ \E env \in Envs :
                 LET fresh == process_file([last'.file EXCEPT !.readable = TRUE],
                                  processed_files \ {MD5(last'.file.content)},
                                  location_cache, out_fs, move_files, env)
                 IN  /\ fresh.result = last'.result
                     /\ fresh.events = last'.events
                     /\ fresh.dest = last'.dest
                     /\ fresh.fs = out_fs'
                     /\ fresh.cache = location_cache' ]_vars

\* C9 witness: an unhashed file was written although a file with the same
\* content had been processed, so that the content is there twice.
C9_Witness ==
    /\ last.hash = None
    /\ last.result
    /\ MD5(last.file.content) \in processed_files
    /\ Cardinality(Copies(last.file.content)) = 2

\* C10: a call that got past the duplicate check and found a latitude and a
\* longitude consults the cache, and asks the geocoder on a miss, also when
\* one of the two is 0.0; only an absent coordinate gives "Unknown_Location"
\* without a cache lookup.
C10_OnlyAbsentSkipsLookup ==
    (called # <<>> /\ ~last.skipped) =>
        IF last.coord.lat # None /\ last.coord.lon # None
        THEN Has(last.events, "lookup")
        ELSE ~Has(last.events, "lookup") /\ last.location = "Unknown_Location"
\* ------------------------------------------------------------------- C11
\* A call in which the geocoder was asked and failed.
FailedRequest == Calls /\ last'.reply \in {"raise", "none"}

\* A call with a coordinate whose key the cache holds as "Unknown_Location".
HitsUnknown ==
    /\ Calls
    /\ HasCoordinate(last'.coord)
    /\ KeyOf(last'.coord) \in DOMAIN location_cache
    /\ location_cache[KeyOf(last'.coord)] = "Unknown_Location"

\* C11: when the request of a cache miss raises or yields no location, the
\* call stores "Unknown_Location" under the rounded key and returns it
\* without the delay; a later call at a key so stored returns
\* "Unknown_Location" without an external request.
C11_FailureCachedNoDelay ==
    [][ /\ FailedRequest =>
            /\ KeyOf(last'.coord) \notin DOMAIN location_cache
            /\ KeyOf(last'.coord) \in DOMAIN location_cache'
            /\ location_cache'[KeyOf(last'.coord)] = "Unknown_Location"
            /\ last'.location = "Unknown_Location"
            /\ ~Has(last'.events, "sleep")
        /\ HitsUnknown =>
            /\ last'.location = "Unknown_Location"
            /\ ~Has(last'.events, "reverse")
            /\ location_cache' = location_cache ]_vars

\* Two calls at one key: the first asked and failed, the second was served
\* "Unknown_Location" by the cache.
C11_Witness ==
    /\ Len(called) = 2
    /\ HasCoordinate(last.coord)
    /\ last.reply = ""
    /\ last.location = "Unknown_Location"
    /\ Has(last.events, "lookup")
    /\ requests[KeyOf(last.coord)] = 1
    /\ location_cache[KeyOf(last.coord)] = "Unknown_Location"

\* ------------------------------------------------------------------- C12
\* The exported lines of the probed video that hold "Creation date" or
\* "Date", in the label or in the value, and split at ": ".
DateLines ==
    { i \in DOMAIN probe.arg.lines :
        /\ probe.arg.lines[i].sep
        /\ \/ probe.arg.lines[i].label \in {"Creation date", "Date"}
           \/ probe.arg.lines[i].value = RawDate("junk_Date", D1, FALSE) }

\* C12 as stated: the creation date get_video_metadata returns is the value
\* of the first matching line.
C12_FirstLineWins ==
    (pc = "applied" /\ probe.arg.video_ok /\ DateLines # {}) =>
        \E i \in DateLines :
            /\ \A j \in DateLines : i <= j
            /\ probe.result = [k \in {"creation_date"} |-> probe.arg.lines[i].value]

\* C12 as the code has it: the loop goes on after a match, so the creation
\* date returned is the value of the last matching line; the dict is empty
\* when no line matches or the video cannot be parsed.
C12_LastLineWins ==
    pc = "applied" =>
        IF probe.arg.video_ok /\ DateLines # {}
        THEN \E i \in DateLines :
                /\ \A j \in DateLines : j <= i
                /\ probe.result = [k \in {"creation_date"} |-> probe.arg.lines[i].value]
        ELSE probe.result = <<>>

\* Two matching lines with different values, the later one returned.
C12_Witness ==
    /\ pc = "applied"
    /\ probe.arg.video_ok
    /\ DateLines = {1, 2}
    /\ probe.arg.lines[1].value # probe.arg.lines[2].value
    /\ probe.result["creation_date"] = probe.arg.lines[2].value

\* ------------------------------------------------------------------- C13
\* main returns early: the source is missing, or --dry-run is given.
EarlyExit == ~args.source_exists \/ args.dry_run

\* C13: main returns 1 when the source does not exist and 0 on --dry-run,
\* and in both cases hashes, copies and moves no file and does not create
\* the output directory; only a run with an existing source and without
\* --dry-run reaches organize_media.
C13_EarlyExitsTouchNothing ==
    /\ [][ (pc = "main" /\ EarlyExit) =>
              /\ pc' = "done"
              /\ exit_code' = IF ~args.source_exists THEN Some(1) ELSE Some(0)
              /\ UNCHANGED <<output_exists, out_fs, source_present,
                             processed_files, location_cache, called, written,
                             inputs, last>> ]_vars
    /\ [](EarlyExit =>
              /\ pc \in {"main", "done"}
              /\ called = <<>>
              /\ written = <<>>
              /\ processed_files = {}
              /\ last = NoCall
              /\ source_present = Range(source_tree))
    /\ []((pc \in {"walk", "loop"} \/ called # <<>>) =>
              args.source_exists /\ ~args.dry_run /\ output_exists)

\* A dry run over a source with a supported file has returned 0: nothing was
\* hashed and the output directory does not exist.
C13_Witness ==
    /\ pc = "done"
    /\ args.source_exists
    /\ args.dry_run
    /\ \E i \in DOMAIN source_tree : is_supported_file(source_tree[i])
    /\ exit_code = Some(0)
    /\ ~output_exists
    /\ called = <<>>
    /\ inputs = [c \in Contents |-> <<0, 0>>]

\* ------------------------------------------------------------------- C14
\* The paths of the source tree with a text suffix, and those with a
\* supported suffix in any letter case, in walk order.
TextPaths == { p \in Range(source_tree) : p.suffix \in {".txt", ".TXT"} }
IsMediaPath(p) == p.suffix \in {".jpg", ".JPG", ".mp4", ".Mp4"}

\* The names a text file of the source tree would take under the output.
TextNames ==
    { PathName(p) : p \in TextPaths }
    \cup { Suffixed(p, n) : p \in TextPaths, n \in 1..MaxFiles }

\* C14: a file of the source tree whose lowercased extension is not
\* supported (.txt) is never passed to process_file and never appears under
\* the output root; a file whose extension is supported in any letter case
\* (.JPG) is accepted.
C14_ExtensionFilter ==
    /\ \A i \in DOMAIN called : called[i] \notin TextPaths
    /\ \A d \in DOMAIN out_fs : d[Len(d)] \notin TextNames
    /\ pc = "loop" => all_files = SelectSeq(source_tree, IsMediaPath)
    /\ (pc = "done" /\ ~EarlyExit /\ (exit_code = Some(0) \/ all_files # <<>>))
           => called = SelectSeq(source_tree, IsMediaPath)

\* A run over notes.txt and pic.JPG has ended: only pic.JPG was passed to
\* process_file, and it was written.
C14_Witness ==
    /\ pc = "done"
    /\ TextPaths # {}
    /\ Len(called) = 1
    /\ called[1].suffix = ".JPG"
    /\ last.result
    /\ Len(written) = 1

\* ------------------------------------------------------------------- C15
\* C15: in every step of a run no digest leaves processed_files, no key
\* leaves location_cache, and the name under a key of location_cache stays
\* the one first written.
C15_SetAndCacheOnlyGrow ==
    [][ /\ processed_files \subseteq processed_files'
        /\ DOMAIN location_cache \subseteq DOMAIN location_cache'
        /\ \A k \in DOMAIN location_cache :
              location_cache'[k] = location_cache[k] ]_vars

\* Two digests are seen and two keys are cached, one of them by a failed
\* request and one by an answered one.
C15_Witness ==
    /\ Cardinality(processed_files) = 2
    /\ Cardinality(DOMAIN location_cache) = 2
    /\ \E k \in DOMAIN location_cache : location_cache[k] = "Unknown_Location"
    /\ \E k \in DOMAIN location_cache : location_cache[k] # "Unknown_Location"

\* ------------------------------------------------------------------- C16
\* The entries of the probed GPS dict.
GpsHas(key) == key \in DOMAIN probe.arg.gps
BothPresent == GpsHas("GPSLatitude") /\ GpsHas("GPSLongitude")

\* A conversion fault: a tuple of fewer than three components, a component
\* or a decimal that is no number or divides by zero.
Faulted(value) ==
    IF value.kind = "tuple"
    THEN Len(value.comps) < 3 \/ \E i \in 1..3 : value.comps[i] = None
    ELSE value.comps[1] = None

\* degrees + minutes/60 + seconds/3600 in arc-seconds, 0 on a fault,
\* negated for the hemisphere `neg`.
Decoded(key, ref_key, neg) ==
    LET value == probe.arg.gps[key]
        magnitude ==
            IF Faulted(value) THEN 0
            ELSE IF value.kind = "tuple"
            THEN value.comps[1][1] * 3600 + value.comps[2][1] * 60 + value.comps[3][1]
            ELSE value.comps[1][1] * 3600
    IN  IF GpsHas(ref_key) /\ probe.arg.gps[ref_key] = neg
        THEN 0 - magnitude ELSE magnitude

DecodedPair ==
    [lat |-> Some(Decoded("GPSLatitude", "GPSLatitudeRef", "S")),
     lon |-> Some(Decoded("GPSLongitude", "GPSLongitudeRef", "W"))]

NoPair == [lat |-> None, lon |-> None]

\* C16: when both entries are present and one has a conversion
\* fault, a coordinate is returned with 0 for that component and the other
\* decoded; (None, None) when the sub-map or an entry is absent.
C16_FaultGivesZero ==
    pc = "applied" =>
        /\ (BothPresent /\ (Faulted(probe.arg.gps["GPSLatitude"])
                             \/ Faulted(probe.arg.gps["GPSLongitude"])))
                => probe.result = DecodedPair
        /\ ~BothPresent => probe.result = NoPair

\* ------------------------------------------------------------------- C17
\* The fields of the probed address that are present, and those that are
\* present and not empty, in the order they are tried.
PlaceOrder == <<"city", "town", "village", "suburb", "neighbourhood", "county", "state">>
PresentPlaces == SelectSeq(PlaceOrder, LAMBDA f : f \in DOMAIN probe.arg)
FilledPlaces == SelectSeq(PresentPlaces, LAMBDA f : probe.arg[f] # <<>>)

\* A text with its spaces and commas removed, and with its spaces turned
\* into underscores and its commas removed.
Removed(text) ==
    CASE text = CityText -> "StIv"
      [] text = CountryText -> "UK"
      [] OTHER -> Join(text)
Underscored(text) ==
    CASE text = CityText -> "St_Iv"
      [] text = CountryText -> "U_K"
      [] OTHER -> Join(text)

\* C17 as stated: the name is place + "_" + country, the place being the
\* first present field of city, town, village, suburb, neighbourhood,
\* county, state, each "Unknown" when missing, each with its spaces and
\* commas removed.
C17_SpacesRemoved ==
    pc = "applied" =>
        probe.result =
            (IF PresentPlaces # <<>> /\ probe.arg[PresentPlaces[1]] # <<>>
             THEN Removed(probe.arg[PresentPlaces[1]]) ELSE "Unknown")
            \o "_" \o
            (IF "country" \in DOMAIN probe.arg /\ probe.arg["country"] # <<>>
             THEN Removed(probe.arg["country"]) ELSE "Unknown")

\* C17 as the code has it: the place is the first field that is present
\* and not empty, and each component has its spaces replaced by "_" and its
\* commas removed; a component is "Unknown" when missing or empty.
C17_SpacesUnderscored ==
    pc = "applied" =>
        probe.result =
            (IF FilledPlaces # <<>>
             THEN Underscored(probe.arg[FilledPlaces[1]]) ELSE "Unknown")
            \o "_" \o
            (IF "country" \in DOMAIN probe.arg /\ probe.arg["country"] # <<>>
             THEN Underscored(probe.arg["country"]) ELSE "Unknown")

\* An empty city, a village and a state, a country with a comma and a space:
\* the village is the place.
C17_Witness ==
    /\ pc = "applied"
    /\ DOMAIN probe.arg = {"city", "village", "state", "country"}
    /\ probe.arg["city"] = <<>>
    /\ probe.arg["country"] = CountryText
    /\ probe.result = "V_U_K"

\* ------------------------------------------------------------------- C18
\* The places of an event in the events of a call.
At(events, e) == { i \in DOMAIN events : events[i] = e }

\* C18: in every call of a run, the delay is taken exactly when the request
\* of the call was answered with a location; it then comes after the
\* request and after the write of the cache entry of its key, and nothing
\* of the call is asked after it, so that the request of any later call
\* follows the delay.
C18_DelayAfterSuccess ==
    [][ Calls =>
          LET ev == last'.events
          IN  /\ (At(ev, "sleep") # {}) <=> (last'.reply = "ok")
              /\ Cardinality(At(ev, "reverse")) <= 1
              /\ Cardinality(At(ev, "sleep")) <= 1
              /\ \A s \in At(ev, "sleep") :
                    /\ \A r \in At(ev, "reverse") : r < s
                    /\ At(ev, "reverse") # {}
                    /\ \E w \in At(ev, "store") :
                          /\ w < s
                          /\ \A r \in At(ev, "reverse") : r < w
                    /\ KeyOf(last'.coord) \in DOMAIN location_cache'
                    /\ KeyOf(last'.coord) \notin DOMAIN location_cache ]_vars

\* Two calls of a run each asked the geocoder and were answered: two keys
\* are cached with a name, the second request came after the first delay.
C18_Witness ==
    /\ Len(called) = 2
    /\ last.reply = "ok"
    /\ Has(last.events, "sleep")
    /\ Cardinality(DOMAIN requests) = 2
    /\ \A k \in DOMAIN requests : requests[k] = 1
    /\ \A k \in DOMAIN location_cache : location_cache[k] # "Unknown_Location"

\* ------------------------------------------------------------------- C19
\* The files of the source tree that are no longer there.
Absent == Range(source_tree) \ source_present

\* C19: the output root being apart from the source tree, a run in copy
\* mode removes no file of the source tree; in move mode a call removes its
\* file exactly when process_file returns True, nothing else removes a
\* file, and at the end as many files are absent as calls returned True:
\* skipped duplicates and failed files remain.
C19_SourceKeptOrMoved ==
    /\ [][ IF Calls
           THEN /\ last'.file.path \in source_present
                /\ source_present' =
                      IF move_files /\ last'.result
                      THEN source_present \ {last'.file.path}
                      ELSE source_present
           ELSE source_present' = source_present ]_vars
    /\ [](~move_files => Absent = {})
    /\ [](Cardinality(Absent) = IF move_files THEN success_count ELSE 0)

\* A run in move mode has ended: of two files with the same bytes the first
\* was moved and is gone, the second was skipped and is still there.
C19_Witness ==
    /\ pc = "done"
    /\ move_files
    /\ Len(called) = 2
    /\ last.skipped
    /\ success_count = 1
    /\ Absent = {called[1]}
    /\ called[2] \in source_present

====
